---- MODULE Spec2Model ----
(***************************************************************************)
(* PhotoSortr: the sorting session state machine (sorter.py) together with *)
(* the session state store (state_manager.py), the folder operations       *)
(* (folder_manager.py), the directory scanner (directory_scanner.py) and   *)
(* the duplicate detector (duplicate_detector.py).                         *)
(*                                                                         *)
(* The file system below root_dir is modelled as a function from paths to  *)
(* file contents.  A path is a record [dir, base, sfx]: the directory      *)
(* below the root, the base letter of the file name and the numeric        *)
(* suffixes move_photo has appended ("a_1_2.jpg" is base "a", sfx <<1,2>>).*)
(***************************************************************************)
EXTENDS Integers, Sequences, FiniteSets, TLC

(***************************************************************************)
(* Bounds of the model.                                                    *)
(***************************************************************************)
MaxDigit    == 3      \* digit keys '0' .. MaxDigit are pressed
HashBits    == 3      \* width of a perceptual hash code

(***************************************************************************)
(* Names.                                                                  *)
(***************************************************************************)
ROOT        == "."            \* a file directly in root_dir
TRASH       == ".trash"       \* sorter.py: self.trash_dir
DUPLICATES  == "Duplicates"   \* sorter.py: duplicates_folder
FolderNames == {"zoo"}         \* names the user types for new folders
None        == "None"
NoPath      == [dir |-> None, base |-> None, sfx |-> <<>>]   \* Python's None where a path is expected
NoPhash     == <<>>           \* a record without perceptual hash (None)
BadPhash    == <<9>>          \* a stored phash that hex_to_hash rejects

\* the characters of the names used, as code points
Chars(s) ==
    CASE s = "a"        -> <<97>>
      [] s = "b"        -> <<98>>
      [] s = "c"        -> <<99>>
      [] s = "Trip"     -> <<84, 114, 105, 112>>
      [] s = "zoo"      -> <<122, 111, 111>>
      [] s = DUPLICATES -> <<68, 117, 112, 108, 105, 99, 97, 116, 101, 115>>
      [] s = TRASH      -> <<46, 116, 114, 97, 115, 104>>
      [] s = ROOT       -> <<46>>

RECURSIVE SfxChars(_)
\* "_<n>" for every suffix
SfxChars(sfx) ==
    IF sfx = <<>> THEN <<>>
    ELSE <<95, 48 + Head(sfx)>> \o SfxChars(Tail(sfx))

\* the file name: base, suffixes, ".jpg"
FileNameChars(p) == Chars(p.base) \o SfxChars(p.sfx) \o <<46, 106, 112, 103>>

\* os.path.join(dirpath, filename), relative to root_dir
PathChars(p) ==
    IF p.dir = ROOT THEN FileNameChars(p)
    ELSE Chars(p.dir) \o <<47>> \o FileNameChars(p)

RECURSIVE StrLess(_, _)
\* Python's < on str
StrLess(s, t) ==
    IF s = <<>> THEN t # <<>>
    ELSE IF t = <<>> THEN FALSE
    ELSE IF Head(s) # Head(t) THEN Head(s) < Head(t)
    ELSE StrLess(Tail(s), Tail(t))

\* name.startswith('.')
IsHidden(s) == Head(Chars(s)) = 46

Path(d, b) == [dir |-> d, base |-> b, sfx |-> <<>>]

RECURSIVE SortPaths(_)
\* list.sort() on a list of distinct path strings
SortPaths(S) ==
    IF S = {} THEN <<>>
    ELSE LET m == CHOOSE x \in S :
                    \A y \in S \ {x} : StrLess(PathChars(x), PathChars(y))
         IN  <<m>> \o SortPaths(S \ {m})

\* directory_scanner.scan_images: every image below the root that is not in
\* a hidden directory, sorted by path
scan_images(files) ==
    SortPaths({p \in DOMAIN files : ~IsHidden(p.dir) \/ p.dir = ROOT})

RECURSIVE SortNames(_)
SortNames(S) ==
    IF S = {} THEN <<>>
    ELSE LET m == CHOOSE x \in S : \A y \in S \ {x} : StrLess(Chars(x), Chars(y))
         IN  <<m>> \o SortNames(S \ {m})

\* folder_manager.list_event_folders: the non-hidden directories of the root
list_event_folders(ds) == SortNames({d \in ds : ~IsHidden(d)})

(***************************************************************************)
(* File operations.  A function restricted / extended.                     *)
(***************************************************************************)
Remove(files, p) == [q \in DOMAIN files \ {p} |-> files[q]]
Put(files, p, c) == [q \in DOMAIN files \cup {p} |-> IF q = p THEN c ELSE files[q]]

\* shutil.move(src, dst) with dst a file path: os.rename, which replaces an
\* existing destination file
shutil_move(files, src, dst) ==
    IF src = dst THEN files ELSE Put(Remove(files, src), dst, files[src])

\* a move that takes the plain destination name also when it is taken
move_photo_dest_Plain(files, src, dest_folder) ==
    [dir |-> dest_folder, base |-> src.base, sfx |-> src.sfx]

\* folder_manager.move_photo: the destination path, with "_<counter>" put
\* before the extension until the name is free
move_photo_dest(files, src, dest_folder) ==
    LET plain == [dir |-> dest_folder, base |-> src.base, sfx |-> src.sfx]
        cand(n) == [dir |-> dest_folder, base |-> src.base, sfx |-> Append(src.sfx, n)]
    IN  IF plain \notin DOMAIN files THEN plain
        ELSE cand(CHOOSE n \in 1..(Cardinality(DOMAIN files) + 1) :
                    /\ cand(n) \notin DOMAIN files
                    /\ \A k \in 1..(n - 1) : cand(k) \in DOMAIN files)

\* os.path.join(self.trash_dir, os.path.basename(photo_path))
trash_file_path(src) == [dir |-> TRASH, base |-> src.base, sfx |-> src.sfx]

(***************************************************************************)
(* duplicate_detector.py.  A file content is a number; equal contents are  *)
(* equal bytes.  The hash index is the dict HashDatabase.hashes in         *)
(* insertion order: a sequence of records [path, sha256, phash].           *)
(***************************************************************************)
Threshold == 1        \* PhotoSorter.duplicate_threshold of the run

\* image_hashes.json that holds no mapping.  json.load rejects the first;
\* the second is a JSON list or string, the third a JSON number or null.
\* Each is written as an index of one record that no lookup matches, so
\* that an index is a sequence of records throughout.
NoRecord(kind) == [kind |-> kind, path |-> NoPath, sha256 |-> -1, phash |-> NoPhash]
HashFileNotJSON == << NoRecord("invalid") >>
HashFileList    == << NoRecord("list") >>
HashFileNumber  == << NoRecord("number") >>

\* self.hashes is a dict
IsMapping(hs) == \A i \in 1..Len(hs) : "kind" \notin DOMAIN hs[i]

\* HashDatabase.load: {} when json.load raises, else whatever json.load gives
HashDatabase_load(file) == IF file = HashFileNotJSON THEN <<>> ELSE file

\* load_hash_database: len(self.hash_db.hashes) raises TypeError on a number
\* and on None
LoadIndexRaises(file) == file = HashFileNumber

\* compute_file_hash: the digest of the bytes (distinct bytes, distinct digest)
compute_file_hash(files, p) == files[p]

\* compute_perceptual_hash of a readable image: a code of HashBits bits
PHashOf(c) == [i \in 1..HashBits |-> (c \div (2 ^ (i - 1))) % 2]

\* bytes that Pillow cannot open as an image
NotAnImage == 0

\* compute_perceptual_hash: None without Pillow/imagehash and for a file that
\* Image.open rejects, else the code of the image
compute_perceptual_hash(files, p, available) ==
    IF ~available \/ files[p] = NotAnImage THEN NoPhash ELSE PHashOf(files[p])

\* imagehash: the difference of two codes is their hamming distance
Hamming(x, y) == Cardinality({i \in 1..HashBits : x[i] # y[i]})

\* a stored phash that imagehash.hex_to_hash accepts
IsCode(h) == h # NoPhash /\ h # BadPhash

RECURSIVE get_by_sha256_Last(_, _)
\* a lookup that keeps searching and returns the last record of the digest
get_by_sha256_Last(hs, sha) ==
    IF hs = <<>> THEN NoPath
    ELSE IF hs[Len(hs)].sha256 = sha THEN hs[Len(hs)].path
    ELSE get_by_sha256_Last(SubSeq(hs, 1, Len(hs) - 1), sha)

RECURSIVE get_by_sha256(_, _)
\* HashDatabase.get_by_sha256: the first path in storage order
get_by_sha256(hs, sha) ==
    IF hs = <<>> THEN NoPath
    ELSE IF Head(hs).sha256 = sha THEN Head(hs).path
    ELSE get_by_sha256(Tail(hs), sha)

RECURSIVE similar_scan_LastWins(_, _, _, _)
\* a scan that replaces the best match also at an equal distance
similar_scan_LastWins(hs, code, best, i) ==
    IF i > Len(hs) THEN best
    ELSE IF ~IsCode(hs[i].phash) THEN similar_scan_LastWins(hs, code, best, i + 1)
    ELSE LET distance == Hamming(code, hs[i].phash)
         IN  IF distance <= best[2]
             THEN similar_scan_LastWins(hs, code, <<hs[i].path, distance>>, i + 1)
             ELSE similar_scan_LastWins(hs, code, best, i + 1)

RECURSIVE similar_scan(_, _, _, _)
\* the for loop of find_similar_by_phash; best is <<best_match, best_distance>>
similar_scan(hs, code, best, i) ==
    IF i > Len(hs) THEN best
    ELSE IF ~IsCode(hs[i].phash) THEN similar_scan(hs, code, best, i + 1)
    ELSE LET distance == Hamming(code, hs[i].phash)
         IN  IF distance < best[2]
             THEN similar_scan(hs, code, <<hs[i].path, distance>>, i + 1)
             ELSE similar_scan(hs, code, best, i + 1)

\* a search that starts one too high and does not compare with the
\* threshold at the end
find_similar_by_phash_Loose(hs, code, threshold, available) ==
    IF ~available \/ ~IsCode(code) THEN <<NoPath, 0>>
    ELSE LET best == similar_scan(hs, code, <<NoPath, threshold + 2>>, 1)
         IN  IF best[1] # NoPath THEN best ELSE <<NoPath, 0>>

\* a search that accepts only a distance below the threshold
find_similar_by_phash_Strict(hs, code, threshold, available) ==
    IF ~available \/ ~IsCode(code) THEN <<NoPath, 0>>
    ELSE LET best == similar_scan(hs, code, <<NoPath, threshold + 1>>, 1)
         IN  IF best[1] # NoPath /\ best[2] < threshold THEN best ELSE <<NoPath, 0>>

\* HashDatabase.find_similar_by_phash: <<path, distance>>, <<NoPath, 0>> for None
find_similar_by_phash(hs, code, threshold, available) ==
    IF ~available \/ ~IsCode(code) THEN <<NoPath, 0>>
    ELSE LET best == similar_scan(hs, code, <<NoPath, threshold + 1>>, 1)
         IN  IF best[1] # NoPath /\ best[2] <= threshold THEN best ELSE <<NoPath, 0>>

\* a check that tries the perceptual hash first
is_duplicate_SimilarFirst(files, p, hs, threshold, available) ==
    IF p \notin DOMAIN files THEN <<FALSE, None, NoPath>>
    ELSE LET original == get_by_sha256(hs, compute_file_hash(files, p))
             phash == compute_perceptual_hash(files, p, available)
             m     == find_similar_by_phash(hs, phash, threshold, available)
         IN  IF available /\ phash # NoPhash /\ m[1] # NoPath
             THEN <<TRUE, "similar", m[1]>>
             ELSE IF original # NoPath THEN <<TRUE, "exact", original>>
             ELSE <<FALSE, None, NoPath>>

\* is_duplicate: <<is_dup, dup_type, original_file>>
is_duplicate(files, p, hs, threshold, available) ==
    IF p \notin DOMAIN files THEN <<FALSE, None, NoPath>>
    ELSE LET original == get_by_sha256(hs, compute_file_hash(files, p))
         IN  IF original # NoPath THEN <<TRUE, "exact", original>>
             ELSE LET phash == compute_perceptual_hash(files, p, available)
                      m     == find_similar_by_phash(hs, phash, threshold, available)
                  IN  IF available /\ phash # NoPhash /\ m[1] # NoPath
                      THEN <<TRUE, "similar", m[1]>>
                      ELSE <<FALSE, None, NoPath>>

\* an add that appends a record also when the path has one
add_hash_Append(hs, p, sha, ph) ==
    Append(hs, [path |-> p, sha256 |-> sha, phash |-> ph])

\* HashDatabase.add_hash: insert, or overwrite the record of the path in place
add_hash(hs, p, sha, ph) ==
    LET rec == [path |-> p, sha256 |-> sha, phash |-> ph]
    IN  IF \E i \in 1..Len(hs) : hs[i].path = p
        THEN [i \in 1..Len(hs) |-> IF hs[i].path = p THEN rec ELSE hs[i]]
        ELSE Append(hs, rec)

\* add_to_hash_db(filepath, hash_db): hashes the file AT filepath; a file
\* that cannot be read, and an index that is no dict, raise inside the try
\* and the index stays as it is
add_to_hash_db(files, p, hs, available) ==
    IF p \notin DOMAIN files \/ ~IsMapping(hs) THEN hs
    ELSE add_hash(hs, p, compute_file_hash(files, p),
                  compute_perceptual_hash(files, p, available))

(***************************************************************************)
(* state_manager.py                                                        *)
(***************************************************************************)
Missing   == [kind |-> "missing"]    \* no state.json
NotJSON   == [kind |-> "invalid"]    \* state.json that json.load rejects
NotObject == [kind |-> "list"]       \* state.json holding valid JSON that is no object: []
LoadRaises == [kind |-> "TypeError"] \* the exception that leaves load_state

DefaultState ==
    [kind |-> "object", last_index |-> 0, sorted_count |-> 0, skipped_count |-> 0,
     deleted_count |-> 0, duplicate_count |-> 0,
     skipped_files |-> <<>>, action_history |-> <<>>]

\* load_state: the defaults when there is no state file or json.load raises
\* JSONDecodeError (the dict returned then has no 'action_history' key; every
\* reader of the key treats a missing key as the empty list); the fields a
\* stored object lacks are filled in from the defaults; the fill-in loop
\* raises TypeError on JSON that is not an object, which no except catches
load_state(file) ==
    IF file.kind \in {"missing", "invalid"} THEN DefaultState
    ELSE IF file.kind # "object" THEN LoadRaises
    ELSE [k \in DOMAIN DefaultState |->
             IF k \in DOMAIN file THEN file[k] ELSE DefaultState[k]]

InSeq(x, s) == \E i \in 1..Len(s) : s[i] = x

add_skipped_file(sf, p) == IF InSeq(p, sf) THEN sf ELSE Append(sf, p)

\* a record that compares the action with the most recent entry only
add_action_to_history_LastOnly(ah, a) ==
    IF ah # <<>> /\ ah[Len(ah)] = a THEN ah ELSE Append(ah, a)

\* a record that appends always
add_action_to_history_Always(ah, a) == Append(ah, a)

\* add_action_to_history: 'action not in state["action_history"]'
add_action_to_history(ah, a) == IF InSeq(a, ah) THEN ah ELSE Append(ah, a)

NoAction == [action |-> None, old_path |-> NoPath, new_path |-> NoPath]

get_last_action(ah) == IF ah = <<>> THEN NoAction ELSE ah[Len(ah)]

pop_last_action(ah) == IF ah = <<>> THEN ah ELSE SubSeq(ah, 1, Len(ah) - 1)

Action(kind, old, new) == [action |-> kind, old_path |-> old, new_path |-> new]

(***************************************************************************)
(* sorter.py: helpers                                                      *)
(***************************************************************************)
\* the files left after shutil.rmtree(trash_dir) and os.makedirs(trash_dir)
empty_trash(files) == [q \in {p \in DOMAIN files : p.dir # TRASH} |-> files[q]]

TrashFiles(files) == {p \in DOMAIN files : p.dir = TRASH}

(***************************************************************************)
(* The state.                                                              *)
(***************************************************************************)
VARIABLES
    fs,                    \* the files below root_dir: path -> content
    dirs,                  \* the directories below root_dir
    state_file,            \* .photosorter/state.json
    hash_file,             \* .photosorter/cache/image_hashes.json
    images,                \* PhotoSorter.images
    current_index,         \* PhotoSorter.current_index (the cursor)
    sorted_count,          \* PhotoSorter.sorted_count
    skipped_count,         \* PhotoSorter.skipped_count
    deleted_count,         \* PhotoSorter.deleted_count
    duplicate_count,       \* PhotoSorter.duplicate_count
    skipped_files,         \* PhotoSorter.state['skipped_files']
    action_history,        \* PhotoSorter.state['action_history']
    hashes,                \* PhotoSorter.hash_db.hashes
    auto_move_duplicates,  \* PhotoSorter.auto_move_duplicates
    perceptual_available,  \* duplicate_detector.PERCEPTUAL_HASH_AVAILABLE
    pc,                    \* where the program is: idle, loop, menu, ended
    last_op,               \* the step taken last and the photo it was about
    snap,                  \* what a sort or delete has just changed
    initial_state,         \* state.json as the first start found it
    session                \* "none", "first" or "later": the sessions begun

disk   == <<fs, dirs, state_file, hash_file>>
counts == <<sorted_count, skipped_count, deleted_count, duplicate_count>>
memory == <<images, current_index, sorted_count, skipped_count, deleted_count,
            duplicate_count, skipped_files, action_history, hashes>>
config == <<auto_move_duplicates, perceptual_available, initial_state>>
vars   == <<fs, dirs, state_file, hash_file, images, current_index,
            sorted_count, skipped_count, deleted_count, duplicate_count,
            skipped_files, action_history, hashes, auto_move_duplicates,
            perceptual_available, pc, last_op, snap, initial_state, session>>

Op(name, photo, ok) == [op |-> name, photo |-> photo, ok |-> ok]

NoSnap ==
    [stage |-> "none", photo |-> NoPath, content |-> 0, current_index |-> 0,
     sorted_count |-> 0, deleted_count |-> 0, action_history |-> <<>>,
     action |-> NoAction, streak |-> <<>>, n |-> 0, undoing |-> FALSE]

\* what n undos have to bring back: the values before a sort or delete
Before ==
    [fs |-> fs, current_index |-> current_index, sorted_count |-> sorted_count,
     deleted_count |-> deleted_count, action_history |-> action_history]

\* the streak of successful sorts and deletes on consecutive photos that the
\* action on photo belongs to: one Before per action that is not yet undone
StreakWith(photo, a) ==
    IF photo \in DOMAIN fs' \/ a.new_path \notin DOMAIN fs' THEN <<>>
    ELSE IF /\ snap.stage = "applied"
            /\ snap.streak # <<>>
            /\ ~snap.undoing
            /\ current_index = snap.current_index + 1
         THEN Append(snap.streak, Before)
         ELSE << Before >>

\* the values a sort or delete of photo is about to change, and the action
\* it hands to add_action_to_history
SnapOf(photo, a) ==
    [stage |-> "applied", photo |-> photo, content |-> fs[photo],
     current_index |-> current_index, sorted_count |-> sorted_count,
     deleted_count |-> deleted_count, action_history |-> action_history,
     action |-> a, streak |-> StreakWith(photo, a),
     n |-> Len(StreakWith(photo, a)), undoing |-> FALSE]

FilesOf(S) == [p \in {x[1] : x \in S} |-> (CHOOSE x \in S : x[1] = p)[2]]

\* the photo directories the program is started on
LayoutDistinct ==
      [files |-> FilesOf({<<Path(ROOT, "a"), 1>>, <<Path(ROOT, "b"), 2>>,
                          <<Path(ROOT, "c"), 3>>}),
       dirs  |-> {}]

\* a.jpg and b.jpg with identical bytes
LayoutIdentical ==
      [files |-> FilesOf({<<Path(ROOT, "a"), 1>>, <<Path(ROOT, "b"), 1>>,
                          <<Path(ROOT, "c"), 3>>}),
       dirs  |-> {}]

\* an event folder that already holds another a.jpg
LayoutSameName ==
      [files |-> FilesOf({<<Path("Trip", "a"), 4>>, <<Path(ROOT, "a"), 1>>,
                          <<Path(ROOT, "b"), 2>>}),
       dirs  |-> {"Trip"}]

\* the hash index files the program is started on: empty,
\* a record with the bytes of content 2,
\* a record of other bytes that look like content 3
IndexEmpty   == <<>>
IndexExactB  == << [path |-> Path("Archive", "b"), sha256 |-> 2, phash |-> NoPhash] >>
IndexSimilar == << [path |-> Path("Archive", "c"), sha256 |-> 7, phash |-> PHashOf(7)] >>

\* a state.json that holds only the cursor
StateCursorOnly == [kind |-> "object", last_index |-> 1]

\* a state.json that holds only the history, of a.jpg sorted into zoo
StateHistoryOnly ==
    [kind |-> "object",
     action_history |-> << Action("moved", Path(ROOT, "a"), Path("zoo", "a")) >>]

\* the directory that history belongs to
LayoutSorted ==
      [files |-> FilesOf({<<Path("zoo", "a"), 1>>, <<Path(ROOT, "b"), 2>>}),
       dirs  |-> {"zoo"}]

\* two photos
LayoutPair ==
      [files |-> FilesOf({<<Path(ROOT, "a"), 1>>, <<Path(ROOT, "b"), 2>>}),
       dirs  |-> {}]

\* the runs that are started: a directory, a hash index, --no-auto-duplicates
\* or not, Pillow and imagehash installed or not, the state.json found
Run(l, h, a, q, s) ==
    [layout |-> l, hash_file |-> h, auto |-> a, perceptual |-> q, state_file |-> s]

Runs ==
    { Run(LayoutDistinct,  IndexEmpty,   TRUE,  TRUE,  Missing),
      Run(LayoutIdentical, IndexEmpty,   TRUE,  FALSE, Missing),
      Run(LayoutSameName,  IndexEmpty,   FALSE, FALSE, Missing),
      Run(LayoutDistinct,  IndexExactB,  TRUE,  FALSE, Missing),
      Run(LayoutDistinct,  IndexSimilar, TRUE,  TRUE,  Missing),
      Run(LayoutDistinct,  IndexExactB,  FALSE, TRUE,  Missing),
      Run(LayoutDistinct,  IndexEmpty,   TRUE,  FALSE, NotJSON),
      Run(LayoutDistinct,  IndexEmpty,   TRUE,  FALSE, NotObject),
      Run(LayoutDistinct,  IndexEmpty,   TRUE,  FALSE, StateCursorOnly),
      Run(LayoutSorted,    IndexEmpty,   TRUE,  FALSE, StateHistoryOnly),
      Run(LayoutPair,      HashFileNotJSON, TRUE, FALSE, Missing),
      Run(LayoutPair,      HashFileList,    TRUE, FALSE, Missing),
      Run(LayoutPair,      HashFileNumber,  TRUE, FALSE, Missing) }

Init ==
    /\ \E r \in Runs :
          /\ fs = r.layout.files
          /\ dirs = r.layout.dirs
          /\ hash_file = r.hash_file
          /\ auto_move_duplicates = r.auto
          /\ perceptual_available = r.perceptual
          /\ state_file = r.state_file
    /\ images = <<>>
    /\ current_index = 0
    /\ sorted_count = 0
    /\ skipped_count = 0
    /\ deleted_count = 0
    /\ duplicate_count = 0
    /\ skipped_files = <<>>
    /\ action_history = <<>>
    /\ hashes = <<>>
    /\ pc = "idle"
    /\ last_op = Op("init", NoPath, TRUE)
    /\ snap = NoSnap
    /\ initial_state = state_file
    /\ session = "none"

\* PhotoSorter.save_state: what is written to state.json
Saved(ci, sc, kc, dc, uc, sf, ah) ==
    [kind |-> "object", last_index |-> ci, sorted_count |-> sc,
     skipped_count |-> kc, deleted_count |-> dc, duplicate_count |-> uc,
     skipped_files |-> sf, action_history |-> ah]

\* save_state() at the end of a step
save_state ==
    state_file' = Saved(current_index', sorted_count', skipped_count',
                        deleted_count', duplicate_count', skipped_files',
                        action_history')

(***************************************************************************)
(* PhotoSorter.run up to the sorting loop.                                 *)
(***************************************************************************)
\* run(): load_images finds nothing and run returns
StartNoImages ==
    /\ pc \in {"idle", "ended"}
    /\ Len(scan_images(fs)) = 0
    /\ images' = <<>>
    /\ current_index' = 0
    /\ sorted_count' = 0
    /\ skipped_count' = 0
    /\ deleted_count' = 0
    /\ duplicate_count' = 0
    /\ skipped_files' = <<>>
    /\ action_history' = <<>>
    /\ hashes' = <<>>
    /\ pc' = "ended"
    /\ last_op' = Op("noimages", NoPath, TRUE)
    /\ session' = session
    /\ snap' = NoSnap
    /\ UNCHANGED <<disk, config>>

\* run(): load_images, then load_state raises and the exception leaves run()
\* before the hash index is loaded and before the try that purges the trash
StartLoadRaises ==
    /\ pc \in {"idle", "ended"}
    /\ Len(scan_images(fs)) > 0
    /\ load_state(state_file) = LoadRaises
    /\ images' = scan_images(fs)
    /\ current_index' = 0
    /\ sorted_count' = 0
    /\ skipped_count' = 0
    /\ deleted_count' = 0
    /\ duplicate_count' = 0
    /\ skipped_files' = <<>>
    /\ action_history' = <<>>
    /\ hashes' = <<>>
    /\ pc' = "ended"
    /\ last_op' = Op("load_error", NoPath, FALSE)
    /\ session' = session
    /\ snap' = NoSnap
    /\ UNCHANGED <<disk, config>>

\* run(): load_images, load_state, then load_hash_database raises and the
\* exception leaves run() before the try that purges the trash
StartIndexRaises ==
    /\ pc \in {"idle", "ended"}
    /\ Len(scan_images(fs)) > 0
    /\ load_state(state_file) # LoadRaises
    /\ LoadIndexRaises(hash_file)
    /\ images' = scan_images(fs)
    /\ LET st == load_state(state_file)
       IN  /\ current_index' = st.last_index
           /\ sorted_count' = st.sorted_count
           /\ skipped_count' = st.skipped_count
           /\ deleted_count' = st.deleted_count
           /\ duplicate_count' = st.duplicate_count
           /\ skipped_files' = st.skipped_files
           /\ action_history' = st.action_history
    /\ hashes' = HashDatabase_load(hash_file)
    /\ pc' = "ended"
    /\ last_op' = Op("index_error", NoPath, FALSE)
    /\ session' = session
    /\ snap' = NoSnap
    /\ UNCHANGED <<disk, config>>

\* run(): load_images, load_state, load_hash_database, the trash of the
\* previous session; response is the answer to "Empty trash ...? (y/n)"
StartSession(response) ==
    /\ pc \in {"idle", "ended"}
    /\ Len(scan_images(fs)) > 0
    /\ load_state(state_file) # LoadRaises
    /\ ~LoadIndexRaises(hash_file)
    /\ images' = scan_images(fs)
    /\ LET st == load_state(state_file)
       IN  /\ current_index' = st.last_index
           /\ sorted_count' = st.sorted_count
           /\ skipped_count' = st.skipped_count
           /\ deleted_count' = st.deleted_count
           /\ duplicate_count' = st.duplicate_count
           /\ skipped_files' = st.skipped_files
           /\ action_history' = st.action_history
    /\ hashes' = HashDatabase_load(hash_file)
    /\ dirs' = dirs \cup {TRASH}
    /\ IF TrashFiles(fs) = {}
       THEN /\ response = "n"
            /\ fs' = fs
            /\ pc' = "loop"
            /\ last_op' = Op("start", NoPath, TRUE)
       ELSE CASE response = "y" ->
                   /\ fs' = empty_trash(fs)
                   /\ pc' = "loop"
                   /\ last_op' = Op("start", NoPath, TRUE)
              [] response = "n" ->
                   /\ fs' = fs
                   /\ pc' = "loop"
                   /\ last_op' = Op("start", NoPath, TRUE)
              [] response = "^C" ->
                   \* KeyboardInterrupt out of input(): run() is left
                   /\ fs' = fs
                   /\ pc' = "ended"
                   /\ last_op' = Op("interrupt_startup", NoPath, TRUE)
    /\ session' = IF session = "none" THEN "first" ELSE "later"
    /\ snap' = NoSnap
    /\ UNCHANGED <<state_file, hash_file, config>>

(***************************************************************************)
(* PhotoSorter._sorting_loop: the top of the while loop.                   *)
(***************************************************************************)
\* self.images[self.current_index] can be evaluated (Python indexing)
HasCurrent ==
    /\ current_index < Len(images)
    /\ current_index >= 0 - Len(images)

CurrentPhoto ==
    IF current_index >= 0 THEN images[current_index + 1]
    ELSE images[Len(images) + current_index + 1]

\* the duplicate check of the current photo; on an index that is no dict
\* is_duplicate raises AttributeError, which the loop catches and goes on
DupCheck ==
    IF IsMapping(hashes)
    THEN is_duplicate(fs, CurrentPhoto, hashes, Threshold, perceptual_available)
    ELSE <<FALSE, None, NoPath>>

\* the loop reaches the viewer and the menu for the current photo
ReachesViewer ==
    /\ pc = "loop"
    /\ HasCurrent
    /\ CurrentPhoto \in DOMAIN fs
    /\ ~(DupCheck[1] /\ auto_move_duplicates)

\* PhotoSorter._empty_trash in the finally of run()
EndSession(kind) ==
    /\ fs' = empty_trash(fs)
    /\ pc' = "ended"
    /\ last_op' = Op(kind, NoPath, TRUE)
    /\ session' = session
    /\ snap' = NoSnap

\* the while condition fails: the loop and the session end
LoopExit ==
    /\ pc = "loop"
    /\ current_index >= Len(images)
    /\ EndSession("exit")
    /\ UNCHANGED <<dirs, state_file, hash_file, memory, config>>

\* a skip of a vanished file that counts it as skipped
Vanished_Counts ==
    /\ pc = "loop"
    /\ HasCurrent
    /\ CurrentPhoto \notin DOMAIN fs
    /\ current_index' = current_index + 1
    /\ skipped_count' = skipped_count + 1
    /\ last_op' = Op("vanished", CurrentPhoto, TRUE)
    /\ session' = session
    /\ snap' = NoSnap
    /\ UNCHANGED <<disk, images, sorted_count, deleted_count, duplicate_count,
                   skipped_files, action_history, hashes, config, pc>>

\* the file of the current photo no longer exists
Vanished ==
    /\ pc = "loop"
    /\ HasCurrent
    /\ CurrentPhoto \notin DOMAIN fs
    /\ current_index' = current_index + 1
    /\ last_op' = Op("vanished", CurrentPhoto, TRUE)
    /\ session' = session
    /\ snap' = NoSnap
    /\ UNCHANGED <<disk, images, counts, skipped_files, action_history,
                   hashes, config, pc>>

\* PhotoSorter._handle_duplicate: the files and directories afterwards;
\* io_ok is false when shutil.move raises
handle_duplicate(files, ds, photo, io_ok) ==
    [fs   |-> IF io_ok
              THEN shutil_move(files, photo, move_photo_dest(files, photo, DUPLICATES))
              ELSE files,
     dirs |-> ds \cup {DUPLICATES}]

\* a detected duplicate is moved to Duplicates without asking
AutoDuplicate(io_ok) ==
    /\ pc = "loop"
    /\ HasCurrent
    /\ CurrentPhoto \in DOMAIN fs
    /\ DupCheck[1]
    /\ auto_move_duplicates
    /\ LET r == handle_duplicate(fs, dirs, CurrentPhoto, io_ok)
       IN  fs' = r.fs /\ dirs' = r.dirs
    /\ duplicate_count' = duplicate_count + 1
    /\ current_index' = current_index + 1
    /\ last_op' = Op("auto_duplicate", CurrentPhoto, io_ok)
    /\ session' = session
    /\ snap' = NoSnap
    /\ UNCHANGED <<hash_file, images, sorted_count, skipped_count,
                   deleted_count, skipped_files, action_history, hashes,
                   config, pc>>
    /\ save_state

\* os_viewer.open_image raises
ViewerFail ==
    /\ ReachesViewer
    /\ current_index' = current_index + 1
    /\ last_op' = Op("viewer_failed", CurrentPhoto, TRUE)
    /\ session' = session
    /\ snap' = NoSnap
    /\ UNCHANGED <<disk, images, counts, skipped_files, action_history,
                   hashes, config, pc>>

\* the photo is opened and the menu is shown: the engine waits for a key
Present ==
    /\ ReachesViewer
    /\ pc' = "menu"
    /\ last_op' = Op("present", CurrentPhoto, TRUE)
    /\ UNCHANGED <<disk, memory, config, snap, session>>

\* an exception leaves _sorting_loop (the index is out of range, or
\* list_event_folders / show_menu raise): run() re-raises after the finally
FatalError ==
    /\ pc = "loop"
    /\ \/ ReachesViewer
       \/ current_index < 0 - Len(images)
    /\ EndSession("error")
    /\ UNCHANGED <<dirs, state_file, hash_file, memory, config>>

(***************************************************************************)
(* PhotoSorter._handle_choice and the action results of _sorting_loop.     *)
(***************************************************************************)
\* a retry that falls through to the next photo
Retry_Advances(why) ==
    /\ pc' = "loop"
    /\ last_op' = Op(why, CurrentPhoto, FALSE)
    /\ session' = session
    /\ snap' = NoSnap
    /\ current_index' = current_index + 1
    /\ UNCHANGED <<state_file, hash_file, images, counts, skipped_files,
                   action_history, hashes, config>>

\* 'retry': the loop continues with the same index
Retry(why) ==
    /\ pc' = "loop"
    /\ last_op' = Op(why, CurrentPhoto, FALSE)
    /\ session' = session
    /\ snap' = NoSnap
    /\ UNCHANGED <<state_file, hash_file, memory, config>>

\* 'moved': the photo was moved to new_path; the action is recorded, the
\* photo is added to the hash index, the count and the index advance
Moved(new_fs, new_dirs, new_path) ==
    /\ fs' = new_fs
    /\ dirs' = new_dirs
    /\ action_history' =
           add_action_to_history(action_history,
                                 Action("moved", CurrentPhoto, new_path))
    /\ hashes' = add_to_hash_db(new_fs, CurrentPhoto, hashes, perceptual_available)
    /\ hash_file' = IF CurrentPhoto \in DOMAIN new_fs /\ IsMapping(hashes)
                    THEN hashes' ELSE hash_file
    /\ sorted_count' = sorted_count + 1
    /\ current_index' = current_index + 1
    /\ pc' = "loop"
    /\ last_op' = Op("moved", CurrentPhoto, TRUE)
    /\ session' = session
    /\ snap' = SnapOf(CurrentPhoto, Action("moved", CurrentPhoto, new_path))
    /\ UNCHANGED <<images, skipped_count, deleted_count, duplicate_count,
                   skipped_files, config>>
    /\ save_state

\* a digit key: move to the event folder with that number
ChooseDigit(k, io_ok) ==
    /\ pc = "menu"
    /\ LET event_folders == list_event_folders(dirs)
           folder_index  == k - 1
       IN  IF 0 <= folder_index /\ folder_index < Len(event_folders)
           THEN LET dest == move_photo_dest(fs, CurrentPhoto,
                                            event_folders[folder_index + 1])
                IN  IF io_ok
                    THEN Moved(shutil_move(fs, CurrentPhoto, dest), dirs, dest)
                    ELSE Retry("move_failed") /\ UNCHANGED <<fs, dirs>>
           ELSE Retry("invalid_folder") /\ UNCHANGED <<fs, dirs>>

\* 'N': name is what the user types; "" is Enter, "a/b" has an invalid
\* character
ChooseNew(name, io_ok) ==
    /\ pc = "menu"
    /\ IF name = "" \/ name = "a/b" \/ name \in dirs
       THEN Retry("no_folder") /\ UNCHANGED <<fs, dirs>>
       ELSE LET dest == move_photo_dest(fs, CurrentPhoto, name)
            IN  IF io_ok
                THEN Moved(shutil_move(fs, CurrentPhoto, dest),
                           dirs \cup {name}, dest)
                ELSE /\ Retry("move_failed")
                     /\ dirs' = dirs \cup {name}
                     /\ fs' = fs

\* Skip without the count
Skip_NoCount ==
    /\ pc = "menu"
    /\ skipped_files' = add_skipped_file(skipped_files, CurrentPhoto)
    /\ current_index' = current_index + 1
    /\ pc' = "loop"
    /\ last_op' = Op("skipped", CurrentPhoto, TRUE)
    /\ session' = session
    /\ snap' = NoSnap
    /\ UNCHANGED <<fs, dirs, hash_file, images, counts, action_history,
                   hashes, config>>
    /\ save_state

\* a skip that leaves the cursor where it is
Skip_Stays ==
    /\ pc = "menu"
    /\ skipped_count' = skipped_count + 1
    /\ skipped_files' = add_skipped_file(skipped_files, CurrentPhoto)
    /\ pc' = "loop"
    /\ last_op' = Op("skipped", CurrentPhoto, TRUE)
    /\ session' = session
    /\ snap' = NoSnap
    /\ UNCHANGED <<fs, dirs, hash_file, images, current_index, sorted_count,
                   deleted_count, duplicate_count, action_history, hashes,
                   config>>
    /\ save_state

\* 'S'
Skip ==
    /\ pc = "menu"
    /\ skipped_count' = skipped_count + 1
    /\ skipped_files' = add_skipped_file(skipped_files, CurrentPhoto)
    /\ current_index' = current_index + 1
    /\ pc' = "loop"
    /\ last_op' = Op("skipped", CurrentPhoto, TRUE)
    /\ session' = session
    /\ snap' = NoSnap
    /\ UNCHANGED <<fs, dirs, hash_file, images, sorted_count, deleted_count,
                   duplicate_count, action_history, hashes, config>>
    /\ save_state

\* a mark-duplicate that is counted as a skip
MarkDuplicate_CountsSkipped(io_ok) ==
    /\ pc = "menu"
    /\ LET r == handle_duplicate(fs, dirs, CurrentPhoto, io_ok)
       IN  fs' = r.fs /\ dirs' = r.dirs
    /\ skipped_count' = skipped_count + 1
    /\ current_index' = current_index + 1
    /\ pc' = "loop"
    /\ last_op' = Op("duplicate", CurrentPhoto, io_ok)
    /\ session' = session
    /\ snap' = NoSnap
    /\ UNCHANGED <<hash_file, images, sorted_count, duplicate_count,
                   deleted_count, skipped_files, action_history, hashes,
                   config>>
    /\ save_state

\* 'U': mark as duplicate
MarkDuplicate(io_ok) ==
    /\ pc = "menu"
    /\ LET r == handle_duplicate(fs, dirs, CurrentPhoto, io_ok)
       IN  fs' = r.fs /\ dirs' = r.dirs
    /\ duplicate_count' = duplicate_count + 1
    /\ current_index' = current_index + 1
    /\ pc' = "loop"
    /\ last_op' = Op("duplicate", CurrentPhoto, io_ok)
    /\ session' = session
    /\ snap' = NoSnap
    /\ UNCHANGED <<hash_file, images, sorted_count, skipped_count,
                   deleted_count, skipped_files, action_history, hashes,
                   config>>
    /\ save_state

\* PhotoSorter._move_to_trash: shutil.move(photo_path, self.trash_dir)
\* raises when the trash holds a file of that name; the except swallows it
move_to_trash(files, photo, io_ok) ==
    IF io_ok /\ trash_file_path(photo) \notin DOMAIN files
    THEN shutil_move(files, photo, trash_file_path(photo))
    ELSE files

\* 'D' and the answer to the confirmation
Delete(confirm, io_ok) ==
    /\ pc = "menu"
    /\ IF ~confirm
       THEN Retry("delete_cancelled") /\ UNCHANGED <<fs, dirs>>
       ELSE /\ fs' = move_to_trash(fs, CurrentPhoto, io_ok)
            /\ action_history' =
                   add_action_to_history(action_history,
                       Action("deleted", CurrentPhoto, trash_file_path(CurrentPhoto)))
            /\ deleted_count' = deleted_count + 1
            /\ current_index' = current_index + 1
            /\ pc' = "loop"
            /\ last_op' = Op("deleted", CurrentPhoto, CurrentPhoto \notin DOMAIN fs')
            /\ session' = session
            /\ snap' = SnapOf(CurrentPhoto,
                               Action("deleted", CurrentPhoto, trash_file_path(CurrentPhoto)))
            /\ UNCHANGED <<dirs, hash_file, images, sorted_count, skipped_count,
                           duplicate_count, skipped_files, hashes, config>>
            /\ save_state

\* an undo that drops the history entry also when it fails
undo_last_action_Drop(files, ah, sc, dc, ci, io_ok) ==
    LET last == get_last_action(ah)
    IN  IF ah = <<>>
        THEN [result |-> "empty", fs |-> files, action_history |-> ah,
              sorted_count |-> sc, deleted_count |-> dc, current_index |-> ci]
        ELSE IF last.new_path \in DOMAIN files /\ io_ok
        THEN [result |-> "ok",
              fs |-> shutil_move(files, last.new_path, last.old_path),
              action_history |-> pop_last_action(ah),
              sorted_count |-> IF last.action = "moved" THEN sc - 1 ELSE sc,
              deleted_count |-> IF last.action = "deleted" THEN dc - 1 ELSE dc,
              current_index |-> ci - 1]
        ELSE [result |-> "failed", fs |-> files,
              action_history |-> pop_last_action(ah),
              sorted_count |-> sc, deleted_count |-> dc, current_index |-> ci]

\* an undo without the check for an empty history
undo_last_action_Unguarded(files, ah, sc, dc, ci, io_ok) ==
    LET last == get_last_action(ah)
        same == [result |-> "failed", fs |-> files, action_history |-> ah,
                 sorted_count |-> sc, deleted_count |-> dc, current_index |-> ci]
    IN  IF ah = <<>> THEN [same EXCEPT !.result = "empty", !.current_index = ci - 1]
        ELSE IF last.new_path \in DOMAIN files /\ io_ok
        THEN [result |-> "ok",
              fs |-> shutil_move(files, last.new_path, last.old_path),
              action_history |-> pop_last_action(ah),
              sorted_count |-> IF last.action = "moved" THEN sc - 1 ELSE sc,
              deleted_count |-> IF last.action = "deleted" THEN dc - 1 ELSE dc,
              current_index |-> ci - 1]
        ELSE same

\* PhotoSorter._undo_last_action: result is "empty", "ok" or "failed"
undo_last_action(files, ah, sc, dc, ci, io_ok) ==
    LET last == get_last_action(ah)
        same == [result |-> "failed", fs |-> files, action_history |-> ah,
                 sorted_count |-> sc, deleted_count |-> dc, current_index |-> ci]
    IN  IF ah = <<>> THEN [same EXCEPT !.result = "empty"]
        ELSE IF last.new_path \in DOMAIN files /\ io_ok
        THEN [result |-> "ok",
              fs |-> shutil_move(files, last.new_path, last.old_path),
              action_history |-> pop_last_action(ah),
              sorted_count |-> IF last.action = "moved" THEN sc - 1 ELSE sc,
              deleted_count |-> IF last.action = "deleted" THEN dc - 1 ELSE dc,
              current_index |-> ci - 1]
        ELSE same

\* 'Z'
Undo(io_ok) ==
    /\ pc = "menu"
    /\ LET r == undo_last_action(fs, action_history, sorted_count,
                                 deleted_count, current_index, io_ok)
       IN  /\ fs' = r.fs
           /\ action_history' = r.action_history
           /\ sorted_count' = r.sorted_count
           /\ deleted_count' = r.deleted_count
           /\ current_index' = r.current_index
           /\ last_op' = Op("undo_" \o r.result, get_last_action(action_history).old_path,
                            r.result = "ok")
    /\ pc' = "loop"
    /\ session' = session
    /\ snap' = LET one  == IF snap.stage = "applied"
                           THEN [snap EXCEPT !.stage = "undone"] ELSE NoSnap
                   rest == IF last_op'.ok /\ snap.streak # <<>>
                           THEN SubSeq(snap.streak, 1, Len(snap.streak) - 1)
                           ELSE <<>>
               IN  [one EXCEPT !.streak = rest,
                               !.n = IF last_op'.ok THEN snap.n ELSE 0,
                               !.undoing = last_op'.ok /\ snap.n > 0]
    /\ UNCHANGED <<dirs, hash_file, images, skipped_count, duplicate_count,
                   skipped_files, hashes, config>>
    /\ IF last_op'.ok THEN save_state ELSE state_file' = state_file

\* 'Q': save_state, break, and the finally of run()
Quit ==
    /\ pc = "menu"
    /\ EndSession("quit")
    /\ UNCHANGED <<dirs, hash_file, memory, config>>
    /\ save_state

\* an interrupt that ends the session without saving
Interrupt_NoSave ==
    /\ pc = "menu"
    /\ EndSession("interrupt")
    /\ UNCHANGED <<dirs, state_file, hash_file, memory, config>>

\* Ctrl+C at the menu: KeyboardInterrupt, save_state, the finally of run()
Interrupt ==
    /\ pc = "menu"
    /\ EndSession("interrupt")
    /\ UNCHANGED <<dirs, hash_file, memory, config>>
    /\ save_state

\* any other key
Invalid ==
    /\ pc = "menu"
    /\ Retry("invalid_choice")
    /\ UNCHANGED <<fs, dirs>>

\* the process is killed while it waits for a key: nothing is saved or purged
Crash ==
    /\ pc = "menu"
    /\ pc' = "ended"
    /\ last_op' = Op("crash", NoPath, TRUE)
    /\ session' = session
    /\ snap' = NoSnap
    /\ UNCHANGED <<disk, memory, config>>

Next ==
    \/ StartNoImages
    \/ StartLoadRaises
    \/ StartIndexRaises
    \/ \E response \in {"y", "n", "^C"} : StartSession(response)
    \/ LoopExit
    \/ Vanished
    \/ \E io_ok \in BOOLEAN : AutoDuplicate(io_ok)
    \/ ViewerFail
    \/ Present
    \/ FatalError
    \/ \E k \in 0..MaxDigit, io_ok \in BOOLEAN : ChooseDigit(k, io_ok)
    \/ \E name \in FolderNames \cup {"", "a/b"}, io_ok \in BOOLEAN : ChooseNew(name, io_ok)
    \/ Skip
    \/ \E io_ok \in BOOLEAN : MarkDuplicate(io_ok)
    \/ \E confirm \in BOOLEAN, io_ok \in BOOLEAN : Delete(confirm, io_ok)
    \/ \E io_ok \in BOOLEAN : Undo(io_ok)
    \/ Quit
    \/ Interrupt
    \/ Invalid
    \/ Crash

Spec == Init /\ [][Next]_vars

\* one pass of the while loop up to the menu, or out of the loop
LoopStep ==
    \/ LoopExit
    \/ Vanished
    \/ \E io_ok \in BOOLEAN : AutoDuplicate(io_ok)
    \/ ViewerFail
    \/ Present
    \/ FatalError

\* cli_ui.get_keypress returns, or Ctrl+C is pressed
KeyPress ==
    \/ \E k \in 0..MaxDigit, io_ok \in BOOLEAN : ChooseDigit(k, io_ok)
    \/ \E name \in FolderNames \cup {"", "a/b"}, io_ok \in BOOLEAN : ChooseNew(name, io_ok)
    \/ Skip
    \/ \E io_ok \in BOOLEAN : MarkDuplicate(io_ok)
    \/ \E confirm \in BOOLEAN, io_ok \in BOOLEAN : Delete(confirm, io_ok)
    \/ \E io_ok \in BOOLEAN : Undo(io_ok)
    \/ Quit
    \/ Interrupt
    \/ Invalid

\* the steps whose result is 'retry' (sorter.py:255-257) and the undos
RetryOps == {"move_failed", "invalid_folder", "no_folder", "delete_cancelled",
             "invalid_choice", "undo_ok", "undo_failed", "undo_empty"}

\* the program runs on while it is in the loop, the user answers every menu,
\* and from some point on presses neither Z nor a key that gives a retry
SpecLive ==
    /\ Init
    /\ [][Next]_vars
    /\ WF_vars(LoopStep)
    /\ WF_vars(KeyPress)
    /\ <>[][last_op'.op \notin RetryOps]_vars

(***************************************************************************)
(* The hash index on its own: HashDatabase and is_duplicate are applied to *)
(* every index that add_hash builds from the records below.  last_op holds *)
(* the call made last, its arguments and what it returned.                 *)
(***************************************************************************)
MaxThreshold == 2      \* thresholds 0 .. MaxThreshold are asked for
MaxIndex     == 2      \* records the index grows to

IndexPaths   == {Path("Archive", "a"), Path("Archive", "b"), Path("Archive", "c")}
Digests      == {1, 3}
Phashes      == {NoPhash, BadPhash, PHashOf(0), PHashOf(3)}
QueryDigests == {1, 2, 3}
QueryCodes   == {PHashOf(0), PHashOf(1), PHashOf(3), BadPhash}

\* the files is_duplicate is asked about: b.jpg has the bytes of a.jpg's
\* look-alike, c.jpg is no image; d.jpg does not exist
Candidates ==
    FilesOf({<<Path(ROOT, "a"), 1>>, <<Path(ROOT, "b"), 2>>,
             <<Path(ROOT, "c"), NotAnImage>>})
QueryPaths == DOMAIN Candidates \cup {Path(ROOT, "d")}

Call(name, arg, result) == [op |-> name, arg |-> arg, result |-> result]

InitIndex ==
    /\ fs = Candidates
    /\ dirs = {}
    /\ state_file = Missing
    /\ hash_file = <<>>
    /\ images = <<>>
    /\ current_index = 0
    /\ sorted_count = 0
    /\ skipped_count = 0
    /\ deleted_count = 0
    /\ duplicate_count = 0
    /\ skipped_files = <<>>
    /\ action_history = <<>>
    /\ hashes = <<>>
    /\ auto_move_duplicates = TRUE
    /\ perceptual_available \in BOOLEAN
    /\ pc = "index"
    /\ last_op = Call("load", <<>>, <<>>)
    /\ snap = NoSnap
    /\ initial_state = Missing
    /\ session = "none"

IndexFrame ==
    UNCHANGED <<fs, dirs, state_file, images, current_index, counts,
                skipped_files, action_history, config, pc, snap, session>>

\* hash_db.add_hash(p, sha, ph); hash_db.save()
IdxAdd(p, sha, ph) ==
    /\ Len(hashes) < MaxIndex \/ \E i \in 1..Len(hashes) : hashes[i].path = p
    /\ hashes' = add_hash(hashes, p, sha, ph)
    /\ hash_file' = hashes'
    /\ last_op' = Call("add_hash", <<p, sha, ph>>, <<>>)
    /\ IndexFrame

\* the add made last is made once more
IdxAddAgain ==
    /\ last_op.op \in {"add_hash", "add_hash_again"}
    /\ hashes' = add_hash(hashes, last_op.arg[1], last_op.arg[2], last_op.arg[3])
    /\ hash_file' = hashes'
    /\ last_op' = Call("add_hash_again", last_op.arg, <<>>)
    /\ IndexFrame

\* hash_db.get_by_sha256(sha)
IdxGet(sha) ==
    /\ last_op' = Call("get_by_sha256", sha, get_by_sha256(hashes, sha))
    /\ UNCHANGED <<hashes, hash_file>>
    /\ IndexFrame

\* hash_db.find_similar_by_phash(code, threshold)
IdxFindSimilar(code, threshold) ==
    /\ last_op' = Call("find_similar_by_phash", <<code, threshold>>,
                       find_similar_by_phash(hashes, code, threshold,
                                             perceptual_available))
    /\ UNCHANGED <<hashes, hash_file>>
    /\ IndexFrame

\* is_duplicate(p, hash_db, threshold)
IdxIsDuplicate(p) ==
    /\ last_op' = Call("is_duplicate", p,
                       is_duplicate(fs, p, hashes, Threshold, perceptual_available))
    /\ UNCHANGED <<hashes, hash_file>>
    /\ IndexFrame

NextIndex ==
    \/ \E p \in IndexPaths, sha \in Digests, ph \in Phashes : IdxAdd(p, sha, ph)
    \/ IdxAddAgain
    \/ \E sha \in QueryDigests : IdxGet(sha)
    \/ \E code \in QueryCodes, threshold \in 0..MaxThreshold :
          IdxFindSimilar(code, threshold)
    \/ \E p \in QueryPaths : IdxIsDuplicate(p)

SpecIndex == InitIndex /\ [][NextIndex]_vars

(***************************************************************************)
(* The claims.                                                             *)
(***************************************************************************)
Counted == sorted_count + skipped_count + deleted_count + duplicate_count

Running == pc \in {"loop", "menu"}

\* C1 (as stated): in every state the four counters plus the images that
\* remain from the cursor on add up to the number of images scanned.
C1_Conservation ==
    Counted + (Len(images) - current_index) = Len(images)

\* C1 (amended): every step of the engine changes the sum of the four
\* counters and the cursor by the same amount, except the skip of a vanished
\* file and of a photo the viewer cannot open, which advance the cursor by
\* one and count nothing.
C1_ConservationBySteps ==
    [][Running =>
          IF last_op'.op \in {"vanished", "viewer_failed"}
          THEN /\ counts' = counts
               /\ current_index' = current_index + 1
          ELSE Counted' - current_index' = Counted - current_index]_vars

\* a vanished file was skipped after photos were counted
C1_Witness ==
    /\ last_op.op = "vanished"
    /\ Counted > 0
    /\ Counted + (Len(images) - current_index) < Len(images)

\* C2: when a sort or delete of the presented photo is followed at once by
\* an undo that succeeds, the photo's content is back at its path and the
\* counts, the cursor and the history are what they were before.
C2_UndoIsInverse ==
    (snap.stage = "undone" /\ last_op.op = "undo_ok") =>
        /\ snap.photo \in DOMAIN fs
        /\ fs[snap.photo] = snap.content
        /\ sorted_count = snap.sorted_count
        /\ deleted_count = snap.deleted_count
        /\ current_index = snap.current_index
        /\ action_history = snap.action_history

\* C3: after a successful undo the image at the cursor is the photo whose
\* action was reversed (the cursor points at the next unprocessed image).
C3_CursorAtUndonePhoto ==
    last_op.op = "undo_ok" =>
        /\ HasCurrent
        /\ current_index >= 0
        /\ CurrentPhoto = last_op.photo

\* C4: after a successful sort the hash index holds a record with the
\* content hash of the photo sorted.
C4_SortedIsIndexed ==
    last_op.op = "moved" =>
        \E i \in 1..Len(hashes) : hashes[i].sha256 = snap.content

\* C5: with auto-handling enabled no photo is presented whose bytes are
\* those of a file that was sorted into a folder and is still there: it is
\* classified exact and moved to Duplicates before the menu.
C5_SecondCopyNotPresented ==
    (pc = "menu" /\ auto_move_duplicates) =>
        ~ \E i \in 1..Len(action_history) :
              LET a == action_history[i]
              IN  /\ a.action = "moved"
                  /\ a.new_path \in DOMAIN fs
                  /\ a.new_path # CurrentPhoto
                  /\ fs[a.new_path] = fs[CurrentPhoto]

\* C6: a session started after a quit or an interrupt continues with the
\* photo that was current when the earlier session ended.
C6_ResumeAtSamePhoto ==
    [][(/\ pc = "ended"
        /\ last_op.op \in {"quit", "interrupt"}
        /\ pc' = "loop")
       => /\ current_index' < Len(images')
          /\ images'[current_index' + 1] = CurrentPhoto]_vars

\* C7: when a session has ended (normally, by quit, by interrupt, by an
\* error, or because no images were found) the trash is empty.
C7_TrashEmptyAtEnd ==
    (pc = "ended" /\ last_op.op # "crash") => TrashFiles(fs) = {}

\* C8: a delete, a mark-duplicate or an auto-duplicate step that was counted
\* has moved the photo away from its source path.
C8_CountedMeansMoved ==
    last_op.op \in {"deleted", "duplicate", "auto_duplicate"} =>
        last_op.photo \notin DOMAIN fs

\* C9: while a session runs, the file of every action in the history
\* exists at the action's destination path.
C9_HistoryReversible ==
    Running =>
        \A i \in 1..Len(action_history) : action_history[i].new_path \in DOMAIN fs

\* C10: an undo that fails leaves the history, the four counters and the
\* cursor as they were.
C10_FailedUndoKeepsState ==
    [][last_op'.op = "undo_failed" =>
          /\ action_history' = action_history
          /\ counts' = counts
          /\ current_index' = current_index]_vars

\* an undo has failed on a history that has an entry
C10_Witness ==
    /\ last_op.op = "undo_failed"
    /\ action_history # <<>>
    /\ get_last_action(action_history).new_path \notin DOMAIN fs

\* C11: an undo on an empty history changes no counter, not the cursor, not
\* the history, not skipped_files, no file and not the saved state, each
\* time it is issued; get_last_action returns None and pop_last_action
\* leaves the empty history empty.
C11_UndoOnEmptyIsNoOp ==
    [][last_op'.op = "undo_empty" =>
          /\ action_history = <<>>
          /\ get_last_action(action_history) = NoAction
          /\ pop_last_action(action_history) = action_history
          /\ fs' = fs
          /\ counts' = counts
          /\ current_index' = current_index
          /\ action_history' = action_history
          /\ skipped_files' = skipped_files
          /\ state_file' = state_file]_vars

\* an undo was issued on an empty history after photos were processed
C11_Witness ==
    /\ last_op.op = "undo_empty"
    /\ action_history = <<>>
    /\ current_index > 0

\* C12 (as stated): a sort or delete appends its action to the history
\* unless the identical action is the most recent entry; an action equal to
\* an older entry is appended.
C12_AppendUnlessMostRecent ==
    [][last_op'.op \in {"moved", "deleted"} =>
          action_history' =
              IF get_last_action(action_history) = snap'.action
              THEN action_history
              ELSE Append(action_history, snap'.action)]_vars

\* C12 (amended): a sort or delete appends its action to the history unless
\* an identical action is anywhere in the history; then the history is left
\* as it is.
C12_AppendUnlessPresent ==
    [][last_op'.op \in {"moved", "deleted"} =>
          action_history' =
              IF \E i \in 1..Len(action_history) : action_history[i] = snap'.action
              THEN action_history
              ELSE Append(action_history, snap'.action)]_vars

\* an action equal to an older entry, not the most recent one, was recorded
\* and the history stayed as it was
C12_Witness ==
    /\ last_op.op \in {"moved", "deleted"}
    /\ Len(action_history) >= 2
    /\ get_last_action(action_history) # snap.action
    /\ \E i \in 1..(Len(action_history) - 1) : action_history[i] = snap.action
    /\ action_history = snap.action_history

\* C13: the action history, in memory and as saved, never holds two entries
\* that are equal by value.
C13_NoDuplicateEntries ==
    /\ \A i, j \in 1..Len(action_history) :
           action_history[i] = action_history[j] => i = j
    /\ state_file.kind = "object" /\ "action_history" \in DOMAIN state_file =>
           \A i, j \in 1..Len(state_file.action_history) :
               state_file.action_history[i] = state_file.action_history[j] => i = j

\* an action that the history already held was recorded again
C13_Witness ==
    /\ last_op.op \in {"moved", "deleted"}
    /\ snap.stage = "applied"
    /\ InSeq(snap.action, snap.action_history)
    /\ Len(action_history) = Len(snap.action_history)

\* C14: whatever state.json holds (nothing, no JSON, JSON that is no object,
\* an object that lacks fields), a start on a directory with images loads
\* the stored values, zero and empty for what is not stored, and the session
\* starts.
C14_LoadNeverFails ==
    [][(pc \in {"idle", "ended"} /\ Len(scan_images(fs)) > 0) =>
          LET Stored(k) == IF state_file.kind = "object" /\ k \in DOMAIN state_file
                           THEN state_file[k] ELSE DefaultState[k]
          IN  /\ last_op'.op \in {"start", "interrupt_startup"}
              /\ current_index' = Stored("last_index")
              /\ sorted_count' = Stored("sorted_count")
              /\ skipped_count' = Stored("skipped_count")
              /\ deleted_count' = Stored("deleted_count")
              /\ duplicate_count' = Stored("duplicate_count")
              /\ skipped_files' = Stored("skipped_files")
              /\ action_history' = Stored("action_history")]_vars

\* the records of the index whose phash is a code, and their distance
ValidRecords == {i \in 1..Len(hashes) : IsCode(hashes[i].phash)}
Distance(code, i) == Hamming(code, hashes[i].phash)

\* C15: get_by_sha256(h) returns a path exactly when a record of the index
\* has content hash h; the path is that of the first such record in storage
\* order; the records with other hashes do not change the result.
C15_FindExact ==
    last_op.op = "get_by_sha256" =>
        LET sha   == last_op.arg
            r     == last_op.result
            holds == {i \in 1..Len(hashes) : hashes[i].sha256 = sha}
        IN  /\ (r # NoPath) <=> (holds # {})
            /\ holds # {} =>
                   r = hashes[CHOOSE i \in holds : \A j \in holds : i <= j].path
            /\ r = get_by_sha256(SelectSeq(hashes, LAMBDA x : x.sha256 = sha), sha)

\* two records hold the digest asked for and the first one was returned
C15_Witness ==
    /\ last_op.op = "get_by_sha256"
    /\ Len(hashes) = 2
    /\ hashes[1].sha256 = last_op.arg
    /\ hashes[2].sha256 = last_op.arg
    /\ last_op.result = hashes[1].path

\* C16: find_similar_by_phash never returns a match whose distance to the
\* query is above the threshold, and returns None when no record of the
\* index has a perceptual hash.
C16_SimilarWithinThreshold ==
    last_op.op = "find_similar_by_phash" =>
        LET code == last_op.arg[1]
            t    == last_op.arg[2]
            r    == last_op.result
        IN  /\ r[1] # NoPath =>
                   /\ r[2] <= t
                   /\ \E i \in ValidRecords :
                          hashes[i].path = r[1] /\ Distance(code, i) = r[2]
            /\ (\A i \in 1..Len(hashes) : hashes[i].phash = NoPhash) => r[1] = NoPath

\* the only records with a code are further away than the threshold and
\* nothing was returned
C16_Witness ==
    /\ last_op.op = "find_similar_by_phash"
    /\ perceptual_available
    /\ IsCode(last_op.arg[1])
    /\ ValidRecords # {}
    /\ \A i \in ValidRecords : Distance(last_op.arg[1], i) > last_op.arg[2]
    /\ last_op.result[1] = NoPath

\* C17 (as stated): a match that find_similar_by_phash returns has a
\* distance strictly below the threshold; a record at exactly the threshold
\* is not returned.
C17_StrictlyWithin ==
    last_op.op = "find_similar_by_phash" =>
        (last_op.result[1] # NoPath => last_op.result[2] < last_op.arg[2])

\* C17 (amended): find_similar_by_phash returns a match exactly when some
\* record's distance to the query is at most the threshold; a record at
\* exactly the threshold is returned when none is nearer.
C17_WithinInclusive ==
    (/\ last_op.op = "find_similar_by_phash"
     /\ perceptual_available
     /\ IsCode(last_op.arg[1])) =>
        LET code == last_op.arg[1]
            t    == last_op.arg[2]
            r    == last_op.result
        IN  /\ (r[1] # NoPath) <=> (\E i \in ValidRecords : Distance(code, i) <= t)
            /\ r[1] # NoPath => r[2] <= t

\* a record at exactly the threshold was returned
C17_Witness ==
    /\ last_op.op = "find_similar_by_phash"
    /\ last_op.result[1] # NoPath
    /\ last_op.arg[2] > 0
    /\ last_op.result[2] = last_op.arg[2]

\* C18: the distance of a match that find_similar_by_phash returns is the
\* minimum over the records that have a code, and of the records at that
\* distance the first in storage order is returned.
C18_MinimumFirst ==
    (last_op.op = "find_similar_by_phash" /\ last_op.result[1] # NoPath) =>
        LET code == last_op.arg[1]
            r    == last_op.result
        IN  /\ \A i \in ValidRecords : r[2] <= Distance(code, i)
            /\ \E i \in ValidRecords :
                   /\ hashes[i].path = r[1]
                   /\ Distance(code, i) = r[2]
                   /\ \A j \in ValidRecords : Distance(code, j) = r[2] => i <= j

\* two records with different codes are equally near and the first was
\* returned
C18_Witness ==
    /\ last_op.op = "find_similar_by_phash"
    /\ Len(hashes) = 2
    /\ IsCode(last_op.arg[1])
    /\ ValidRecords = {1, 2}
    /\ hashes[1].phash # hashes[2].phash
    /\ Distance(last_op.arg[1], 1) = Distance(last_op.arg[1], 2)
    /\ last_op.result[1] = hashes[1].path

\* C19: adding the same path, content hash and perceptual hash a second time
\* leaves the index, in memory and as saved, what it was after the first
\* add.
C19_AddIdempotent ==
    [][last_op'.op = "add_hash_again" =>
          /\ hashes' = hashes
          /\ hash_file' = hash_file]_vars

\* the record of a path that is not the last of the index was added twice
C19_Witness ==
    /\ last_op.op = "add_hash_again"
    /\ Len(hashes) = 2
    /\ hashes[1].path = last_op.arg[1]

C21_OwnCounterOnly ==
    [][Running =>
          LET op   == last_op'.op
              d    == [i \in 1..4 |-> counts'[i] - counts[i]]
              unit(k) == [i \in 1..4 |-> IF i = k THEN 1 ELSE 0]
          IN  /\ op = "moved" => d = unit(1) /\ current_index' = current_index + 1
              /\ op = "skipped" => d = unit(2) /\ current_index' = current_index + 1
              /\ op = "deleted" => d = unit(3) /\ current_index' = current_index + 1
              /\ op \in {"duplicate", "auto_duplicate"} =>
                     d = unit(4) /\ current_index' = current_index + 1
              /\ Len(action_history') > Len(action_history) =>
                     /\ op \in {"moved", "deleted"}
                     /\ Len(action_history') = Len(action_history) + 1
              /\ Len(action_history') < Len(action_history) =>
                     /\ op = "undo_ok"
                     /\ Len(action_history') = Len(action_history) - 1]_vars

\* a photo was marked a duplicate after one was sorted and one skipped
C21_Witness ==
    /\ last_op.op = "duplicate"
    /\ sorted_count = 1
    /\ skipped_count = 1
    /\ duplicate_count = 1
    /\ deleted_count = 0
    /\ Len(action_history) = 1

\* C22: an unknown key, a digit that names no event folder, an empty, invalid
\* or existing new-folder name and an unconfirmed delete change no counter,
\* not the cursor, not the history, no file, no directory and not the saved
\* state; the same photo stays current.
C22_InvalidInputIsNoOp ==
    [][last_op'.op \in {"invalid_choice", "invalid_folder", "no_folder",
                        "delete_cancelled"} =>
          /\ counts' = counts
          /\ current_index' = current_index
          /\ images' = images
          /\ action_history' = action_history
          /\ skipped_files' = skipped_files
          /\ fs' = fs
          /\ dirs' = dirs
          /\ state_file' = state_file
          /\ hashes' = hashes
          /\ pc' = "loop"
          /\ last_op'.photo = CurrentPhoto]_vars

\* a delete was not confirmed while the trash and the history hold entries
C22_Witness ==
    /\ last_op.op = "delete_cancelled"
    /\ action_history # <<>>
    /\ TrashFiles(fs) # {}
    /\ last_op.photo = CurrentPhoto

C25_AutoDuplicateIff ==
    [][(pc = "loop" /\ HasCurrent /\ CurrentPhoto \in DOMAIN fs) =>
          IF DupCheck[1] /\ auto_move_duplicates
          THEN /\ last_op'.op = "auto_duplicate"
               /\ CurrentPhoto \notin DOMAIN fs'
               /\ \E q \in DOMAIN fs' \ DOMAIN fs :
                      q.dir = DUPLICATES /\ fs'[q] = fs[CurrentPhoto]
               /\ duplicate_count' = duplicate_count + 1
               /\ current_index' = current_index + 1
               /\ pc' = "loop"
          ELSE /\ last_op'.op # "auto_duplicate"
               /\ {q \in DOMAIN fs' : q.dir = DUPLICATES}
                      = {q \in DOMAIN fs : q.dir = DUPLICATES}
               /\ last_op'.op = "present" =>
                      /\ counts' = counts
                      /\ current_index' = current_index
                      /\ fs' = fs
                      /\ pc' = "menu"]_vars

\* C26: when the file of the current photo does not exist at the top of the
\* loop, the step taken advances the cursor by one, changes no counter,
\* records no action, touches no file and the loop goes on.
C26_VanishedIsSkipped ==
    [][(pc = "loop" /\ HasCurrent /\ CurrentPhoto \notin DOMAIN fs) =>
          /\ last_op' = Op("vanished", CurrentPhoto, TRUE)
          /\ current_index' = current_index + 1
          /\ counts' = counts
          /\ action_history' = action_history
          /\ skipped_files' = skipped_files
          /\ fs' = fs
          /\ pc' = "loop"]_vars

\* a vanished file was passed over and the loop has photos left
C26_Witness ==
    /\ last_op.op = "vanished"
    /\ pc = "loop"
    /\ HasCurrent
    /\ current_index >= 1
    /\ CurrentPhoto \in DOMAIN fs

\* C27: whenever the engine waits for a key, state.json holds the in-memory
\* cursor, counters, skipped_files and history.
C27_PersistedAtMenu ==
    pc = "menu" =>
        load_state(state_file) =
            Saved(current_index, sorted_count, skipped_count, deleted_count,
                  duplicate_count, skipped_files, action_history)

\* C28: a step that moves the photo into a folder puts its content at a
\* path that did not exist: the plain name if that was free, else the name
\* with the first free _n; every other file, those of the destination
\* folder included, keeps its path and content; the path recorded for a
\* sort is that path.
C28_MoveNeverOverwrites ==
    [][(\/ last_op'.op = "moved"
        \/ last_op'.op \in {"duplicate", "auto_duplicate"} /\ last_op'.ok) =>
          LET photo == last_op'.photo
              news  == DOMAIN fs' \ DOMAIN fs
          IN  /\ photo \notin DOMAIN fs'
              /\ \A p \in DOMAIN fs \ {photo} : p \in DOMAIN fs' /\ fs'[p] = fs[p]
              /\ \E q \in news :
                     LET named(x) == [dir |-> q.dir, base |-> photo.base, sfx |-> x]
                     IN  /\ news = {q}
                         /\ fs'[q] = fs[photo]
                         /\ last_op'.op = "moved" => snap'.action.new_path = q
                         /\ IF named(photo.sfx) \notin DOMAIN fs
                            THEN q = named(photo.sfx)
                            ELSE \E n \in 1..(Cardinality(DOMAIN fs) + 1) :
                                    /\ q = named(Append(photo.sfx, n))
                                    /\ \A k \in 1..(n - 1) :
                                           named(Append(photo.sfx, k)) \in DOMAIN fs]_vars

\* a photo was sorted into a folder that holds another file of its name
C28_Witness ==
    /\ last_op.op = "moved"
    /\ snap.action.new_path.sfx # snap.photo.sfx
    /\ snap.action.new_path \in DOMAIN fs
    /\ \E p \in DOMAIN fs :
           /\ p.dir = snap.action.new_path.dir
           /\ p.base = snap.photo.base
           /\ p.sfx = snap.photo.sfx
           /\ fs[p] # snap.content

\* C29: whatever image_hashes.json holds (nothing, no JSON, JSON that is no
\* mapping), a start on a directory with images and a loadable state.json
\* reaches the sorting loop, and an index that is no mapping finds no
\* duplicate.
C29_IndexNeverAborts ==
    [][(/\ pc \in {"idle", "ended"}
        /\ Len(scan_images(fs)) > 0
        /\ load_state(state_file) # LoadRaises) =>
          /\ last_op'.op \in {"start", "interrupt_startup"}
          /\ ~IsMapping(hash_file) =>
                 \A sha \in {fs[p] : p \in DOMAIN fs} :
                     get_by_sha256(hashes', sha) = NoPath]_vars

\* C30: a sort, delete, mark-duplicate, auto-duplicate or undo step keeps
\* every photo content: each content is held by as many files after the
\* step as before.
C30_NoContentLost ==
    [][last_op'.op \in {"moved", "deleted", "duplicate", "auto_duplicate",
                        "undo_ok", "undo_failed", "undo_empty"} =>
          \A c \in {fs[p] : p \in DOMAIN fs} :
              Cardinality({p \in DOMAIN fs' : fs'[p] = c})
                  = Cardinality({p \in DOMAIN fs : fs[p] = c})]_vars

\* C31: after n successful sorts or deletes in a row on n consecutive
\* photos, each of the undos that follow in a row takes back the latest
\* action not yet undone: files, cursor, sorted_count, deleted_count and
\* history are what they were before that action, so the n-th undo gives
\* the values from before the first action.
C31_UndoReversesStreak ==
    [][(last_op'.op = "undo_ok" /\ snap.streak # <<>>) =>
          LET before == snap.streak[Len(snap.streak)]
          IN  /\ fs' = before.fs
              /\ current_index' = before.current_index
              /\ sorted_count' = before.sorted_count
              /\ deleted_count' = before.deleted_count
              /\ action_history' = before.action_history]_vars

\* the first start found no state.json or one that reads as the defaults
Fresh == load_state(initial_state) = DefaultState

\* C32: in a run that began with fresh state, the history holds as many
\* 'moved' entries as sorted_count says and as many 'deleted' entries as
\* deleted_count says.
C32_HistoryMatchesCounters ==
    Fresh =>
        /\ Cardinality({i \in 1..Len(action_history) :
                            action_history[i].action = "moved"}) = sorted_count
        /\ Cardinality({i \in 1..Len(action_history) :
                            action_history[i].action = "deleted"}) = deleted_count

\* C33: in a run that began with fresh state, skipped_count is the number
\* of distinct paths in skipped_files.
C33_SkippedOnce ==
    Fresh =>
        skipped_count = Cardinality({skipped_files[i] : i \in 1..Len(skipped_files)})

====
